---- MODULE Spec2Model ----
(***************************************************************************)
(* Model of src/capture.rs: the DxgiCapture engine (a desktop-duplication  *)
(* session, a cached ROI staging texture, frame acquisition with recovery  *)
(* from device loss, and the stride-aware readback).                       *)
(*                                                                         *)
(* The engine's fields are the variables.  Every method is a pure operator *)
(* from the engine record and the answers of the graphics API (its         *)
(* "environment" argument) to the new engine record, the returned value    *)
(* and the trace of API calls it made.  One action applies one public      *)
(* operation (new, capture_region, drop) as a whole.                       *)
(***************************************************************************)
EXTENDS Integers, Sequences, FiniteSets, TLC

VARIABLES
    duplication,        \* Option<IDXGIOutputDuplication>
    d3d_device,         \* Option<ID3D11Device>
    d3d_context,        \* Option<ID3D11DeviceContext>
    dxgi_output5,       \* Option<IDXGIOutput5>
    roi_texture,        \* Option<ID3D11Texture2D>
    output_width,       \* u32
    output_height,      \* u32
    chosen_format,      \* DXGI_FORMAT
    roi_cached_width,   \* u32
    roi_cached_height,  \* u32
    overflow_checks,    \* build profile: TRUE = debug (u32 overflow panics)
    phase,              \* "unborn" | "idle" | "returned" | "failed" | "dropped"
    last,               \* the operation that has just returned to the caller
    prev                \* what the caller keeps of the operation before it

fields == <<duplication, d3d_device, d3d_context, dxgi_output5, roi_texture,
            output_width, output_height, chosen_format,
            roi_cached_width, roi_cached_height>>

vars == <<duplication, d3d_device, d3d_context, dxgi_output5, roi_texture,
          output_width, output_height, chosen_format,
          roi_cached_width, roi_cached_height,
          overflow_checks, phase, last, prev>>

-----------------------------------------------------------------------------
(* Bounds of the model.                                                    *)

MaxLeft == 1        \* left is 0, MaxLeft or 2^32-1
MaxTop == 1         \* top is 0 or MaxTop
MaxWidth == 2       \* width ranges over 1..MaxWidth
MaxHeight == 2      \* height ranges over 1..MaxHeight
RowPad == 4         \* bytes of row padding a mapped surface may add

-----------------------------------------------------------------------------
(* u32 arithmetic.  A u32 is kept at its full width as two 16-bit limbs.   *)

Limb == 65536

U32(n) == [hi |-> n \div Limb, lo |-> n % Limb]

U32_MAX == [hi |-> Limb - 1, lo |-> Limb - 1]

\* value of a u32 as a number (only evaluated on values below 2^31)
as_usize(x) == x.hi * Limb + x.lo

\* the mathematical sum a + b exceeds 2^32 - 1
u32_add_overflows(a, b) ==
    a.hi + b.hi + ((a.lo + b.lo) \div Limb) >= Limb

\* a + b as the release build computes it (wrapping modulo 2^32)
u32_wrapping_add(a, b) ==
    [hi |-> (a.hi + b.hi + ((a.lo + b.lo) \div Limb)) % Limb,
     lo |-> (a.lo + b.lo) % Limb]

u32_gt(a, b) == a.hi > b.hi \/ (a.hi = b.hi /\ a.lo > b.lo)

\* the mathematical comparison a + b > c, with no width limit
MathSumExceeds(a, b, c) == u32_add_overflows(a, b) \/ u32_gt(u32_wrapping_add(a, b), c)

-----------------------------------------------------------------------------
(* Option values, pixel formats, results.                                  *)

None == "None"
Some == "Some"

\* Option<ID3D11Texture2D>: the texture carries what it was created with
NoTexture == << >>
Texture(width, height, format) ==
    << [Width |-> width, Height |-> height, Format |-> format] >>

supported_formats ==
    << "DXGI_FORMAT_B8G8R8A8_UNORM",
       "DXGI_FORMAT_R8G8B8A8_UNORM",
       "DXGI_FORMAT_R16G16B16A16_FLOAT" >>

Formats == { supported_formats[i] : i \in DOMAIN supported_formats }

Ok(data) == [kind |-> "Ok", error |-> "", data |-> data]
Err(e)   == [kind |-> "Err", error |-> e, data |-> << >>]
Panic    == [kind |-> "Panic", error |-> "attempt to add with overflow", data |-> << >>]

Self == [duplication |-> duplication, d3d_device |-> d3d_device,
         d3d_context |-> d3d_context, dxgi_output5 |-> dxgi_output5,
         roi_texture |-> roi_texture,
         output_width |-> output_width, output_height |-> output_height,
         chosen_format |-> chosen_format,
         roi_cached_width |-> roi_cached_width,
         roi_cached_height |-> roi_cached_height]

\* the struct literal of new()
Fresh == [duplication |-> None, d3d_device |-> None, d3d_context |-> None,
          dxgi_output5 |-> None, roi_texture |-> NoTexture,
          output_width |-> U32(0), output_height |-> U32(0),
          chosen_format |-> "DXGI_FORMAT_B8G8R8A8_UNORM",
          roi_cached_width |-> U32(0), roi_cached_height |-> U32(0)]

-----------------------------------------------------------------------------
(* release_resources                                                       *)

\* mutant: the device outlives the teardown
release_resources_keep_device(s) ==
    [s EXCEPT !.duplication = None,
              !.roi_texture = NoTexture,
              !.dxgi_output5 = None,
              !.d3d_context = None,
              !.roi_cached_width = U32(0),
              !.roi_cached_height = U32(0)]

\* mutant: the cached staging dimensions outlive the teardown
release_resources_keep_cache(s) ==
    [s EXCEPT !.duplication = None,
              !.roi_texture = NoTexture,
              !.dxgi_output5 = None,
              !.d3d_context = None,
              !.d3d_device = None]

\* mutant: the staging texture outlives the teardown
release_resources_keep_texture(s) ==
    [s EXCEPT !.duplication = None,
              !.dxgi_output5 = None,
              !.d3d_context = None,
              !.d3d_device = None]

release_resources(s) ==
    [s EXCEPT !.duplication = None,
              !.roi_texture = NoTexture,
              !.dxgi_output5 = None,
              !.d3d_context = None,
              !.d3d_device = None,
              !.roi_cached_width = U32(0),
              !.roi_cached_height = U32(0)]

-----------------------------------------------------------------------------
(* initialize_duplication.  e is what the graphics API answers:            *)
(*   e.device  D3D11CreateDevice yields a device and a context             *)
(*   e.output  the adapter, its output 0 and its description are obtained  *)
(*   e.width, e.height  the desktop rectangle's extent                     *)
(*   e.accepts the formats DuplicateOutput1 accepts                        *)

DuplicateOutput1(f, ok) ==
    "DuplicateOutput1(" \o f \o (IF ok THEN "):Ok" ELSE "):Err")

\* mutant: the loop does not stop at the first accepted format
RECURSIVE try_formats_no_break(_, _)
try_formats_no_break(i, accepts) ==
    IF i > Len(supported_formats)
    THEN [format |-> None, ops |-> << >>]
    ELSE LET rest == try_formats_no_break(i + 1, accepts)
             ok == supported_formats[i] \in accepts
         IN [format |-> IF rest.format # None THEN rest.format
                        ELSE IF ok THEN supported_formats[i] ELSE None,
             ops |-> << DuplicateOutput1(supported_formats[i], ok) >> \o rest.ops]

\* the loop over supported_formats from index i: the first accepted format
\* (or None) and the calls made
RECURSIVE try_formats(_, _)
try_formats(i, accepts) ==
    IF i > Len(supported_formats)
    THEN [format |-> None, ops |-> << >>]
    ELSE IF supported_formats[i] \in accepts
         THEN [format |-> supported_formats[i],
               ops |-> << DuplicateOutput1(supported_formats[i], TRUE) >>]
         ELSE LET rest == try_formats(i + 1, accepts)
              IN [format |-> rest.format,
                  ops |-> << DuplicateOutput1(supported_formats[i], FALSE) >> \o rest.ops]

\* mutant: the previous resources are not released first
initialize_duplication_no_release(s, e) ==
    LET enter == << "initialize_duplication" >> IN
    IF ~e.device
    THEN [s |-> s, res |-> Err("DeviceInitError"),
          ops |-> enter \o << "D3D11CreateDevice:Err" >>]
    ELSE IF ~e.output
    THEN [s |-> s, res |-> Err("DeviceInitError"),
          ops |-> enter \o << "D3D11CreateDevice:Ok", "EnumOutputs:Err" >>]
    ELSE
    LET s1 == [s EXCEPT !.output_width = e.width, !.output_height = e.height]
        dup == try_formats(1, e.accepts)
        got == enter \o << "D3D11CreateDevice:Ok", "EnumOutputs:Ok" >> \o dup.ops
    IN
    IF dup.format = None
    THEN [s |-> s1, res |-> Err("DuplicationError"), ops |-> got]
    ELSE [s |-> [s1 EXCEPT !.chosen_format = dup.format,
                           !.d3d_device = Some,
                           !.d3d_context = Some,
                           !.dxgi_output5 = Some,
                           !.duplication = Some,
                           !.roi_cached_width = U32(0),
                           !.roi_cached_height = U32(0)],
          res |-> Ok(<< >>), ops |-> got]

initialize_duplication(s, e) ==
    LET s0 == release_resources(s)
        enter == << "initialize_duplication", "release_resources" >>
    IN
    IF ~e.device
    THEN [s |-> s0, res |-> Err("DeviceInitError"),
          ops |-> enter \o << "D3D11CreateDevice:Err" >>]
    ELSE IF ~e.output
    THEN [s |-> s0, res |-> Err("DeviceInitError"),
          ops |-> enter \o << "D3D11CreateDevice:Ok", "EnumOutputs:Err" >>]
    ELSE
    LET s1 == [s0 EXCEPT !.output_width = e.width, !.output_height = e.height]
        dup == try_formats(1, e.accepts)
        got == enter \o << "D3D11CreateDevice:Ok", "EnumOutputs:Ok" >> \o dup.ops
    IN
    IF dup.format = None
    THEN [s |-> s1, res |-> Err("DuplicationError"), ops |-> got]
    ELSE [s |-> [s1 EXCEPT !.chosen_format = dup.format,
                           !.d3d_device = Some,
                           !.d3d_context = Some,
                           !.dxgi_output5 = Some,
                           !.duplication = Some,
                           !.roi_cached_width = U32(0),
                           !.roi_cached_height = U32(0)],
          res |-> Ok(<< >>), ops |-> got]

-----------------------------------------------------------------------------
(* ensure_roi_texture.  create_ok is whether CreateTexture2D succeeds.     *)

\* mutant: the cached dimensions are not updated with the new texture
create_roi_texture_stale_dims(s, width, height, create_ok) ==
    LET s1 == [s EXCEPT !.roi_texture = NoTexture] IN
    IF s.d3d_device # None /\ ~create_ok
    THEN [s |-> s1, res |-> Err("AllocationError"),
          ops |-> << "CreateTexture2D:Err" >>]
    ELSE [s |-> [s1 EXCEPT !.roi_texture =
                               IF s.d3d_device # None
                               THEN Texture(width, height, s.chosen_format)
                               ELSE NoTexture],
          res |-> Ok(<< >>),
          ops |-> IF s.d3d_device # None THEN << "CreateTexture2D:Ok" >> ELSE << >>]

\* mutant: the created texture is not stored
create_roi_texture_not_stored(s, width, height, create_ok) ==
    LET s1 == [s EXCEPT !.roi_texture = NoTexture] IN
    IF s.d3d_device # None /\ ~create_ok
    THEN [s |-> s1, res |-> Err("AllocationError"),
          ops |-> << "CreateTexture2D:Err" >>]
    ELSE [s |-> [s1 EXCEPT !.roi_cached_width = width,
                           !.roi_cached_height = height],
          res |-> Ok(<< >>),
          ops |-> IF s.d3d_device # None THEN << "CreateTexture2D:Ok" >> ELSE << >>]

\* what ensure_roi_texture does when it does not reuse the texture
create_roi_texture(s, width, height, create_ok) ==
    LET s1 == [s EXCEPT !.roi_texture = NoTexture] IN
    IF s.d3d_device # None /\ ~create_ok
    THEN [s |-> s1, res |-> Err("AllocationError"),
          ops |-> << "CreateTexture2D:Err" >>]
    ELSE [s |-> [s1 EXCEPT !.roi_texture =
                               IF s.d3d_device # None
                               THEN Texture(width, height, s.chosen_format)
                               ELSE NoTexture,
                           !.roi_cached_width = width,
                           !.roi_cached_height = height],
          res |-> Ok(<< >>),
          ops |-> IF s.d3d_device # None THEN << "CreateTexture2D:Ok" >> ELSE << >>]

\* mutant: the texture is never reused
ensure_roi_texture_always(s, width, height, create_ok) ==
    create_roi_texture(s, width, height, create_ok)

\* mutant: the texture is reused when the width alone matches
ensure_roi_texture_width_only(s, width, height, create_ok) ==
    IF s.roi_texture # NoTexture /\ s.roi_cached_width = width
    THEN [s |-> s, res |-> Ok(<< >>), ops |-> << >>]
    ELSE create_roi_texture(s, width, height, create_ok)

ensure_roi_texture(s, width, height, create_ok) ==
    IF s.roi_texture # NoTexture
       /\ s.roi_cached_width = width
       /\ s.roi_cached_height = height
    THEN [s |-> s, res |-> Ok(<< >>), ops |-> << >>]
    ELSE create_roi_texture(s, width, height, create_ok)

-----------------------------------------------------------------------------
(* capture_region.  oc is the build's overflow checking; env is what the   *)
(* graphics API answers during the call:                                   *)
(*   env.init1    answers to the lazy initialize_duplication               *)
(*   env.create1  CreateTexture2D of the first ensure_roi_texture          *)
(*   env.acquire  outcome of AcquireNextFrame: "Frame" (Ok with a          *)
(*                resource), "NoResource" (Ok with none) or an error code  *)
(*   env.init2    answers to the initialize_duplication of the recovery    *)
(*   env.create2  CreateTexture2D of the ensure_roi_texture after it       *)
(*   env.cast     the frame resource casts to ID3D11Texture2D              *)
(*   env.map      Map succeeds                                             *)
(*   env.pad      RowPitch - width*4 of the mapped surface                 *)

TransientCodes ==
    { "DXGI_ERROR_ACCESS_LOST",
      "DXGI_ERROR_DEVICE_REMOVED",
      "DXGI_ERROR_DEVICE_RESET",
      "DXGI_ERROR_SESSION_DISCONNECTED" }

\* error codes of AcquireNextFrame the source does not name
OtherCodes == { "DXGI_ERROR_WAIT_TIMEOUT", "DXGI_ERROR_INVALID_CALL" }

AcquireOutcomes == { "Frame", "NoResource" } \cup TransientCodes \cup OtherCodes

\* mutant: a timed-out poll is taken for a device loss too
requires_reinit_timeout(error_code) ==
    error_code \in TransientCodes \cup { "DXGI_ERROR_WAIT_TIMEOUT" }

requires_reinit(error_code) ==
    \/ error_code = "DXGI_ERROR_ACCESS_LOST"
    \/ error_code = "DXGI_ERROR_DEVICE_REMOVED"
    \/ error_code = "DXGI_ERROR_DEVICE_RESET"
    \/ error_code = "DXGI_ERROR_SESSION_DISCONNECTED"

\* the error of `return Err(format!("Erro ao adquirir frame: {:?}", error_code))`
acquire_error(error_code) ==
    IF requires_reinit(error_code)
    THEN Err("TransientCaptureError")
    ELSE Err("FatalCaptureError")

\* the check of the first statement: "panic", "reject" or "pass"
bounds_check(s, left, top, width, height, oc) ==
    IF oc /\ u32_add_overflows(left, width) THEN "panic"
    ELSE IF u32_gt(u32_wrapping_add(left, width), s.output_width) THEN "reject"
    ELSE IF oc /\ u32_add_overflows(top, height) THEN "panic"
    ELSE IF u32_gt(u32_wrapping_add(top, height), s.output_height) THEN "reject"
    ELSE "pass"

\* vec![0u8; (height as usize) * (width as usize) * 4]
zeroed(width, height) ==
    [k \in 1..(as_usize(height) * as_usize(width) * 4) |-> 0]

\* the byte at an offset from pData of the mapped surface
MappedByte(off) == (off % 251) + 1

\* mutant: the buffer is sized by the row pitch
copy_rows_pitch(width, height, row_pitch) ==
    [k \in 1..(as_usize(height) * row_pitch) |-> MappedByte(k - 1)]

\* mutant: the source rows are read as if they were packed
copy_rows_packed(width, height, row_pitch) ==
    [k \in 1..(as_usize(height) * as_usize(width) * 4) |-> MappedByte(k - 1)]

\* the row loop: row y of the buffer is the first width*4 bytes at y*row_pitch
copy_rows(width, height, row_pitch) ==
    [k \in 1..(as_usize(height) * as_usize(width) * 4) |->
        LET y == (k - 1) \div (as_usize(width) * 4)
            i == (k - 1) % (as_usize(width) * 4)
        IN MappedByte(y * row_pitch + i)]

NoBox == [left |-> U32(0), top |-> U32(0), right |-> U32(0), bottom |-> U32(0)]

\* row_pitch is the RowPitch of the mapped surface (0 when none was mapped)
Outcome(s, res, ops, pre_acq, box) ==
    [s |-> s, res |-> res, ops |-> ops, pre_acq |-> pre_acq, src_box |-> box,
     row_pitch |-> 0]

\* mutant: the frame is released only after the staging texture is mapped
readback_release_after_map(s, left, top, width, height, env, ops0) ==
    IF ~env.cast
    THEN Outcome(s, Err("FrameTextureError"), ops0 \o << "cast:Err" >>, << s >>, NoBox)
    ELSE
    LET src_box == [left |-> left, top |-> top,
                    right |-> u32_wrapping_add(left, width),
                    bottom |-> u32_wrapping_add(top, height)]
        both == s.d3d_context # None /\ s.roi_texture # NoTexture
        release == IF s.duplication # None THEN << "ReleaseFrame" >> ELSE << >>
        ops1 == ops0 \o << "cast:Ok" >>
                \o (IF both THEN << "CopySubresourceRegion" >> ELSE << >>)
    IN
    IF both /\ ~env.map
    THEN Outcome(s, Err("MappingError"), ops1 \o << "Map:Err" >> \o release,
                 << s >>, src_box)
    ELSE IF ~both
    THEN Outcome(s, [kind |-> "UB", error |-> "read through null pData", data |-> << >>],
                 ops1 \o release \o << "copy_rows" >>, << s >>, src_box)
    ELSE
    LET row_pitch == as_usize(width) * 4 + env.pad IN
    [Outcome(s, Ok(copy_rows(width, height, row_pitch)),
             ops1 \o << "Map:Ok" >> \o release \o << "copy_rows", "Unmap" >>,
             << s >>, src_box)
        EXCEPT !.row_pitch = row_pitch]

\* from `let acquired_texture = frame_resource.cast()?` to the end
readback(s, left, top, width, height, env, ops0) ==
    IF ~env.cast
    THEN Outcome(s, Err("FrameTextureError"), ops0 \o << "cast:Err" >>, << s >>, NoBox)
    ELSE
    LET src_box == [left |-> left, top |-> top,
                    right |-> u32_wrapping_add(left, width),
                    bottom |-> u32_wrapping_add(top, height)]
        both == s.d3d_context # None /\ s.roi_texture # NoTexture
        ops1 == ops0 \o << "cast:Ok" >>
                \o (IF both THEN << "CopySubresourceRegion" >> ELSE << >>)
                \o (IF s.duplication # None THEN << "ReleaseFrame" >> ELSE << >>)
    IN
    IF both /\ ~env.map
    THEN Outcome(s, Err("MappingError"), ops1 \o << "Map:Err" >>, << s >>, src_box)
    ELSE IF ~both
    THEN \* Map was skipped: pData is null and the row loop reads through it
         Outcome(s, [kind |-> "UB", error |-> "read through null pData", data |-> << >>],
                 ops1 \o << "copy_rows" >>, << s >>, src_box)
    ELSE
    LET row_pitch == as_usize(width) * 4 + env.pad IN
    [Outcome(s, Ok(copy_rows(width, height, row_pitch)),
             ops1 \o << "Map:Ok", "copy_rows", "Unmap" >>, << s >>, src_box)
        EXCEPT !.row_pitch = row_pitch]

\* mutant: the staging texture is not recreated after the reinitialization
recover_no_ensure(s, width, height, env, ops0) ==
    IF requires_reinit(env.acquire)
    THEN
        LET r == initialize_duplication(s, env.init2) IN
        IF r.res.kind = "Ok"
        THEN Outcome(r.s, acquire_error(env.acquire), ops0 \o r.ops, << s >>, NoBox)
        ELSE Outcome(r.s, r.res, ops0 \o r.ops, << s >>, NoBox)
    ELSE Outcome(s, acquire_error(env.acquire), ops0, << s >>, NoBox)

\* mutant: after a successful recovery the call returns a buffer
recover_retry(s, width, height, env, ops0) ==
    IF requires_reinit(env.acquire)
    THEN
        LET r == initialize_duplication(s, env.init2) IN
        IF r.res.kind = "Ok"
        THEN LET t == ensure_roi_texture(r.s, width, height, env.create2) IN
             IF t.res.kind # "Ok"
             THEN Outcome(t.s, t.res, ops0 \o r.ops \o t.ops, << s >>, NoBox)
             ELSE Outcome(t.s, Ok(zeroed(width, height)),
                          ops0 \o r.ops \o t.ops, << s >>, NoBox)
        ELSE Outcome(r.s, r.res, ops0 \o r.ops, << s >>, NoBox)
    ELSE Outcome(s, acquire_error(env.acquire), ops0, << s >>, NoBox)

\* the `if let Err(err) = result` block of the acquisition
recover(s, width, height, env, ops0) ==
    IF requires_reinit(env.acquire)
    THEN
        LET r == initialize_duplication(s, env.init2) IN
        IF r.res.kind = "Ok"
        THEN LET t == ensure_roi_texture(r.s, width, height, env.create2) IN
             IF t.res.kind # "Ok"
             THEN Outcome(t.s, t.res, ops0 \o r.ops \o t.ops, << s >>, NoBox)
             ELSE Outcome(t.s, acquire_error(env.acquire),
                          ops0 \o r.ops \o t.ops, << s >>, NoBox)
        ELSE Outcome(r.s, r.res, ops0 \o r.ops, << s >>, NoBox)
    ELSE Outcome(s, acquire_error(env.acquire), ops0, << s >>, NoBox)

\* from AcquireNextFrame on; s is the engine after ensure_roi_texture
acquire(s, left, top, width, height, env, ops0) ==
    LET ops1 == ops0 \o << "AcquireNextFrame:" \o env.acquire >> IN
    IF env.acquire \notin { "Frame", "NoResource" }
    THEN recover(s, width, height, env, ops1)
    ELSE IF env.acquire = "NoResource"
    THEN Outcome(s, Ok(zeroed(width, height)),
                 ops1 \o (IF s.duplication # None THEN << "ReleaseFrame" >> ELSE << >>),
                 << s >>, NoBox)
    ELSE readback(s, left, top, width, height, env, ops1)

\* pre_acq of a call that never reached AcquireNextFrame
NoAcq == << >>

capture_region(s, left, top, width, height, oc, env) ==
    LET chk == bounds_check(s, left, top, width, height, oc) IN
    IF chk = "panic" THEN Outcome(s, Panic, << >>, NoAcq, NoBox)
    ELSE IF chk = "reject" THEN Outcome(s, Err("ValidationError"), << >>, NoAcq, NoBox)
    ELSE
    LET r == IF s.duplication = None
             THEN initialize_duplication(s, env.init1)
             ELSE [s |-> s, res |-> Ok(<< >>), ops |-> << >>]
    IN
    IF r.res.kind # "Ok" THEN Outcome(r.s, r.res, r.ops, NoAcq, NoBox)
    ELSE
    LET t == ensure_roi_texture(r.s, width, height, env.create1) IN
    IF t.res.kind # "Ok" THEN Outcome(t.s, t.res, r.ops \o t.ops, NoAcq, NoBox)
    ELSE acquire(t.s, left, top, width, height, env, r.ops \o t.ops)

-----------------------------------------------------------------------------
(* The inputs: rectangles and the answers of the graphics API.             *)

Lefts   == { U32(0), U32(MaxLeft), U32_MAX }
Tops    == { U32(0), U32(MaxTop) }
Widths  == { U32(n) : n \in 1..MaxWidth }
Heights == { U32(n) : n \in 1..MaxHeight }

\* extents of the desktop rectangle the output may report
OutputSizes == { << U32(2), U32(2) >>, << U32(1), U32(1) >> }

\* the formats an output may accept: all from some candidate on, or none
AcceptSets ==
    { { supported_formats[j] : j \in i..Len(supported_formats) } :
        i \in 1..(Len(supported_formats) + 1) }

InitEnv(device, output, size, accepts) ==
    [device |-> device, output |-> output,
     width |-> size[1], height |-> size[2], accepts |-> accepts]

NoSize == << U32(0), U32(0) >>

InitFailures ==
    { InitEnv(FALSE, FALSE, NoSize, {}), InitEnv(TRUE, FALSE, NoSize, {}) }
    \cup { InitEnv(TRUE, TRUE, size, {}) : size \in OutputSizes }

InitSuccesses ==
    { InitEnv(TRUE, TRUE, size, accepts) :
        size \in OutputSizes, accepts \in AcceptSets \ { {} } }

InitEnvs == InitFailures \cup InitSuccesses

\* an answer nothing reads
Unused == InitEnv(FALSE, FALSE, NoSize, {})

\* the usual answer: the larger desktop, every format accepted
Usual == InitEnv(TRUE, TRUE, << U32(2), U32(2) >>, Formats)

Env(init1, create1, acq, init2, create2, cast, map, pad) ==
    [init1 |-> init1, create1 |-> create1, acquire |-> acq, init2 |-> init2,
     create2 |-> create2, cast |-> cast, map |-> map, pad |-> pad]

\* the answers from AcquireNextFrame on; answers no path reads are fixed.
\* Every failure and every success of the recovery is tried with one
\* transient code; the other codes with one failure and one success, and a
\* failure to recreate the staging texture with the usual success.
TailEnvs(init1, create1) ==
    { Env(init1, create1, a, Unused, FALSE, FALSE, FALSE, 0) :
        a \in { "NoResource" } \cup OtherCodes }
    \cup { Env(init1, create1, "Frame", Unused, FALSE, FALSE, FALSE, 0),
           Env(init1, create1, "Frame", Unused, FALSE, TRUE, FALSE, 0) }
    \cup { Env(init1, create1, "Frame", Unused, FALSE, TRUE, TRUE, pad) :
             pad \in { 0, RowPad } }
    \cup { Env(init1, create1, "DXGI_ERROR_ACCESS_LOST", i2, TRUE, FALSE, FALSE, 0) :
             i2 \in InitEnvs }
    \cup { Env(init1, create1, a, Usual, FALSE, FALSE, FALSE, 0) :
             a \in TransientCodes }
    \cup { Env(init1, create1, a, i2, TRUE, FALSE, FALSE, 0) :
             a \in TransientCodes \ { "DXGI_ERROR_ACCESS_LOST" }, i2 \in { Unused, Usual } }

NoEnv == Env(Unused, FALSE, "NoResource", Unused, FALSE, FALSE, FALSE, 0)

\* the answers a call on engine s can read; chk is its bounds check
Envs(s, chk) ==
    IF chk # "pass" THEN { NoEnv }
    ELSE
    LET I1 == IF s.duplication = None THEN InitEnvs ELSE { Unused } IN
    UNION { { Env(i1, FALSE, "NoResource", Unused, FALSE, FALSE, FALSE, 0) }
            \cup TailEnvs(i1, TRUE) : i1 \in I1 }

-----------------------------------------------------------------------------
(* The state machine.  The caller owns the engine: it constructs it, calls *)
(* capture_region, takes the returned value, calls again, and finally      *)
(* drops the engine.  `last` is the call that has just returned: its       *)
(* arguments, the engine before it (pre), its result, the API calls it     *)
(* made (ops), the engine at the acquisition (pre_acq) and the source box  *)
(* of the GPU copy.  `prev` is the caller's note of the call before.       *)

NoArg == U32(0)

Call(op, left, top, width, height, pre, o) ==
    [op |-> op, left |-> left, top |-> top, width |-> width, height |-> height,
     pre |-> pre, result |-> o.res, ops |-> o.ops, pre_acq |-> o.pre_acq,
     src_box |-> o.src_box, row_pitch |-> o.row_pitch]

NoCall == Call("none", NoArg, NoArg, NoArg, NoArg, Fresh,
               Outcome(Fresh, Ok(<< >>), << >>, NoAcq, NoBox))

Summary(c) ==
    [op |-> c.op, error |-> c.result.error, width |-> c.width, height |-> c.height]

Store(s) ==
    /\ duplication' = s.duplication
    /\ d3d_device' = s.d3d_device
    /\ d3d_context' = s.d3d_context
    /\ dxgi_output5' = s.dxgi_output5
    /\ roi_texture' = s.roi_texture
    /\ output_width' = s.output_width
    /\ output_height' = s.output_height
    /\ chosen_format' = s.chosen_format
    /\ roi_cached_width' = s.roi_cached_width
    /\ roi_cached_height' = s.roi_cached_height

Init ==
    /\ duplication = Fresh.duplication
    /\ d3d_device = Fresh.d3d_device
    /\ d3d_context = Fresh.d3d_context
    /\ dxgi_output5 = Fresh.dxgi_output5
    /\ roi_texture = Fresh.roi_texture
    /\ output_width = Fresh.output_width
    /\ output_height = Fresh.output_height
    /\ chosen_format = Fresh.chosen_format
    /\ roi_cached_width = Fresh.roi_cached_width
    /\ roi_cached_height = Fresh.roi_cached_height
    /\ overflow_checks \in BOOLEAN
    /\ phase = "unborn"
    /\ last = NoCall
    /\ prev = Summary(NoCall)

\* DxgiCapture::new(): on failure the half-built engine is dropped
New ==
    /\ phase = "unborn"
    /\ \E e \in InitEnvs :
        LET r == initialize_duplication(Fresh, e)
            ok == r.res.kind = "Ok"
            s == IF ok THEN r.s ELSE release_resources(r.s)
            ops == IF ok THEN r.ops ELSE r.ops \o << "release_resources" >>
        IN /\ Store(s)
           /\ phase' = IF ok THEN "returned" ELSE "failed"
           /\ last' = Call("new", NoArg, NoArg, NoArg, NoArg, Fresh,
                           Outcome(s, r.res, ops, NoAcq, NoBox))
    /\ UNCHANGED <<overflow_checks, prev>>

CaptureRegion ==
    /\ phase = "idle"
    /\ \E left \in Lefts, top \in Tops, width \in Widths, height \in Heights :
       \E env \in Envs(Self, bounds_check(Self, left, top, width, height,
                                           overflow_checks)) :
        LET o == capture_region(Self, left, top, width, height, overflow_checks, env)
        IN /\ Store(o.s)
           /\ last' = Call("capture_region", left, top, width, height, Self, o)
    /\ phase' = "returned"
    /\ UNCHANGED <<overflow_checks, prev>>

\* the caller takes the returned value; the engine is idle until the next call
Consume ==
    /\ phase = "returned"
    /\ phase' = "idle"
    /\ prev' = Summary(last)
    /\ last' = NoCall
    /\ UNCHANGED fields
    /\ UNCHANGED overflow_checks

\* Drop for DxgiCapture
Drop ==
    /\ phase = "idle"
    /\ Store(release_resources(Self))
    /\ phase' = "dropped"
    /\ last' = Call("drop", NoArg, NoArg, NoArg, NoArg, Self,
                    Outcome(Self, Ok(<< >>), << "release_resources" >>, NoAcq, NoBox))
    /\ UNCHANGED <<overflow_checks, prev>>

Next == New \/ CaptureRegion \/ Consume \/ Drop

Spec == Init /\ [][Next]_vars

-----------------------------------------------------------------------------
(* Reading the record of a returned call.                                  *)

\* a capture_region call has just returned
Returned == phase = "returned" /\ last.op = "capture_region"

\* the call before it was a capture_region call too
Consecutive == Returned /\ prev.op = "capture_region"

SameDims == prev.width = last.width /\ prev.height = last.height

Has(c, op) == \E i \in DOMAIN c.ops : c.ops[i] = op

Count(c, S) == Cardinality({ i \in DOMAIN c.ops : c.ops[i] \in S })

AcquireOp(a) == "AcquireNextFrame:" \o a

\* AcquireNextFrame answered a in this call
Acquired(c, a) == Has(c, AcquireOp(a))

AcquireOps == { AcquireOp(a) : a \in AcquireOutcomes }

TransientAcquireOps == { AcquireOp(a) : a \in TransientCodes }

TransientAcquire(c) == \E i \in DOMAIN c.ops : c.ops[i] \in TransientAcquireOps

CreateOps == { "CreateTexture2D:Ok", "CreateTexture2D:Err" }

\* calls of CreateTexture2D (staging-buffer allocations) in this call
Allocations(c) == Count(c, CreateOps)

\* the ops of S made after an op of X
CountAfter(c, X, S) ==
    Cardinality({ j \in DOMAIN c.ops :
                    c.ops[j] \in S /\ \E i \in 1..(j - 1) : c.ops[i] \in X })

\* an op of X occurs, and later an op of Y
Then(c, X, Y) ==
    \E i \in DOMAIN c.ops :
        /\ c.ops[i] \in X
        /\ \E j \in (i + 1)..Len(c.ops) : c.ops[j] \in Y

DuplicationStarted == { DuplicateOutput1(f, TRUE) : f \in Formats }

\* the call reinitialized the session after its acquisition, successfully
ReinitSucceeded(c) == Then(c, AcquireOps, DuplicationStarted)

\* the rectangle lies inside the output the engine knew when called
InBounds(c) ==
    /\ ~MathSumExceeds(c.left, c.width, c.pre.output_width)
    /\ ~MathSumExceeds(c.top, c.height, c.pre.output_height)

ByteLen(c) == as_usize(c.width) * as_usize(c.height) * 4

\* errors of initialize_duplication; the error taxonomy files a failure to
\* start the duplication under DeviceInitError as well
InitErrors == { "DeviceInitError", "DuplicationError" }

Uninitialized(s) ==
    /\ s.duplication = None
    /\ s.d3d_device = None
    /\ s.d3d_context = None
    /\ s.dxgi_output5 = None
    /\ s.roi_texture = NoTexture

-----------------------------------------------------------------------------
(* Claims.                                                                 *)

\* C1: a call whose rectangle exceeds the output (left+width > output_width
\* or top+height > output_height, as numbers) fails with ValidationError,
\* makes no API call and leaves every engine field as it was.
\* The code adds in u32: with left = 2^32-1 the sum wraps (release) or the
\* call panics (debug), so this statement is violated.
C1_OutOfBoundsRejected ==
    (Returned /\ ~InBounds(last))
        => /\ last.result = Err("ValidationError")
           /\ last.ops = << >>
           /\ Self = last.pre

\* C2: a call that obtained a frame (AcquireNextFrame answered Ok with a
\* resource) releases it (ReleaseFrame) before it returns.
\* The code returns on a failed cast of the frame resource without
\* releasing, so this statement is violated.
C2_FrameReleased ==
    (Returned /\ Acquired(last, "Frame"))
        => Then(last, { AcquireOp("Frame") }, { "ReleaseFrame" })

\* C3: on an initialized session, an in-bounds call whose poll finds no new
\* frame returns Ok with width*height*4 zero bytes and does not
\* reinitialize.  No new frame is AcquireNextFrame answering
\* DXGI_ERROR_WAIT_TIMEOUT (the zero-wait poll timing out) or Ok with no
\* resource; the code handles only the second, so this statement is violated.
C3_NoNewFrameZeroes ==
    (/\ Returned
     /\ last.pre.duplication # None
     /\ InBounds(last)
     /\ (Acquired(last, "NoResource") \/ Acquired(last, "DXGI_ERROR_WAIT_TIMEOUT")))
        => /\ last.result = Ok(zeroed(last.width, last.height))
           /\ ~Has(last, "initialize_duplication")

\* C4: after a call that failed with TransientCaptureError (its recovery
\* succeeded), the next call with the same (width, height) goes straight to
\* AcquireNextFrame, and if it gets a frame and maps it, it returns Ok with
\* width*height*4 bytes without initializing or allocating.
C4_NextCallSucceeds ==
    (/\ Consecutive
     /\ prev.error = "TransientCaptureError"
     /\ SameDims
     /\ last.result.error \notin { "ValidationError", Panic.error })
        => /\ last.ops[1] \in AcquireOps
           /\ (Acquired(last, "Frame") /\ Has(last, "Map:Ok"))
                => /\ last.result.kind = "Ok"
                   /\ Len(last.result.data) = ByteLen(last)
                   /\ ~Has(last, "initialize_duplication")
                   /\ Allocations(last) = 0

C4_Witness ==
    /\ Consecutive
    /\ prev.error = "TransientCaptureError"
    /\ SameDims
    /\ Acquired(last, "Frame")
    /\ Has(last, "Map:Ok")
    /\ last.result.kind = "Ok"

\* C5 as claimed: a call whose acquisition failed with a transient code and
\* whose reinitialization succeeded returns TransientCaptureError.
C5_TransientAlwaysReported ==
    (Returned /\ TransientAcquire(last) /\ ReinitSucceeded(last))
        => last.result = Err("TransientCaptureError")

\* C5 amended: a call acquires at most once; after a transient failure it
\* reinitializes exactly once and never returns Ok; when the
\* reinitialization succeeds it returns TransientCaptureError if the staging
\* buffer is then recreated, and AllocationError if that allocation fails.
C5_RecoveryOnce ==
    Returned
        => /\ Count(last, AcquireOps) <= 1
           /\ TransientAcquire(last)
                => /\ CountAfter(last, AcquireOps, { "initialize_duplication" }) = 1
                   /\ last.result.kind # "Ok"
                   /\ ReinitSucceeded(last)
                        => /\ CountAfter(last, AcquireOps, CreateOps) = 1
                           /\ Then(last, AcquireOps, { "CreateTexture2D:Ok" })
                                => last.result = Err("TransientCaptureError")
                           /\ Then(last, AcquireOps, { "CreateTexture2D:Err" })
                                => last.result = Err("AllocationError")

C5_Witness ==
    /\ Returned
    /\ TransientAcquire(last)
    /\ ReinitSucceeded(last)
    /\ last.result = Err("TransientCaptureError")

\* C6: when the acquisition fails with a transient code and the
\* reinitialization fails, the call returns that initialization failure and
\* the session is uninitialized (no device, context, output, duplication or
\* staging buffer); the next in-bounds call starts by initializing.
C6_FailedReinitUninitialized ==
    /\ (Returned /\ TransientAcquire(last) /\ ~ReinitSucceeded(last))
        => /\ last.result.kind = "Err"
           /\ last.result.error \in InitErrors
           /\ Uninitialized(Self)
    /\ (Consecutive /\ prev.error \in InitErrors /\ InBounds(last))
        => /\ last.pre.duplication = None
           /\ last.ops # << >>
           /\ last.ops[1] = "initialize_duplication"

C6_Witness ==
    /\ Returned
    /\ TransientAcquire(last)
    /\ ~ReinitSucceeded(last)
    /\ last.result.error \in InitErrors
    /\ last.pre.duplication # None

\* the next call after such a failure is reached too
C6_NextCallReached ==
    /\ Consecutive
    /\ prev.error \in InitErrors
    /\ InBounds(last)
    /\ last.result.kind = "Ok"

\* C7: when the acquisition fails with a code that is not one of the four
\* transient codes, the call returns FatalCaptureError, AcquireNextFrame is
\* its last API call (no initialize_duplication, no release_resources), and
\* the engine is as it was at the acquisition.
C7_FatalNoRecovery ==
    (Returned /\ \E a \in OtherCodes : Acquired(last, a))
        => /\ last.result = Err("FatalCaptureError")
           /\ last.ops[Len(last.ops)] \in AcquireOps
           /\ ~Then(last, AcquireOps, { "initialize_duplication", "release_resources" })
           /\ last.pre_acq = << Self >>

C7_Witness ==
    /\ Returned
    /\ \E a \in OtherCodes : Acquired(last, a)
    /\ last.result = Err("FatalCaptureError")
    /\ roi_texture # NoTexture

\* C8 as claimed: the second of two consecutive calls with identical
\* (width, height) makes no staging-buffer allocation.
C8_SameDimsNoAllocation ==
    (Consecutive /\ SameDims) => Allocations(last) = 0

\* the first call got past the staging-buffer allocation and left the
\* session initialized
KeptStaging(e) ==
    e \in { "", "TransientCaptureError", "FatalCaptureError",
            "FrameTextureError", "MappingError" }

\* C8 amended: the second of two consecutive calls with identical
\* (width, height) makes no allocation, provided the first got past the
\* staging-buffer allocation with the session left initialized and the
\* second's acquisition does not fail with a transient code.
C8_ReuseStaging ==
    (/\ Consecutive
     /\ SameDims
     /\ KeptStaging(prev.error)
     /\ ~TransientAcquire(last))
        => Allocations(last) = 0

C8_Witness ==
    /\ Consecutive
    /\ SameDims
    /\ prev.error = ""
    /\ last.result.kind = "Ok"
    /\ Acquired(last, "Frame")
    /\ Allocations(last) = 0

\* C9 as claimed: an in-bounds call whose (width, height) differs from the
\* previous call's allocates exactly once, on every path.
C9_NewDimsAllocateOnce ==
    (Consecutive /\ ~SameDims /\ InBounds(last)) => Allocations(last) = 1

\* the lazy initialization of the call failed
LazyInitFailed(c) ==
    c.pre_acq = NoAcq /\ c.result.error \in InitErrors

\* C9 amended: an in-bounds call whose (width, height) differs from that of
\* the previous call, the previous call not having been rejected by the
\* bounds check and this call's lazy initialization (if any) succeeding,
\* allocates exactly once; except when its acquisition fails with a transient
\* code and the reinitialization succeeds: then it allocates exactly twice,
\* once before the acquisition and once after the reinitialization.
C9_NewDimsAllocation ==
    (/\ Consecutive
     /\ ~SameDims
     /\ InBounds(last)
     /\ prev.error \notin { "ValidationError", Panic.error }
     /\ ~LazyInitFailed(last))
        => IF TransientAcquire(last) /\ ReinitSucceeded(last)
           THEN /\ Allocations(last) = 2
                /\ CountAfter(last, AcquireOps, CreateOps) = 1
           ELSE Allocations(last) = 1

C9_Witness ==
    /\ Consecutive
    /\ ~SameDims
    /\ InBounds(last)
    /\ prev.error = ""
    /\ last.pre.roi_texture # NoTexture
    /\ last.result.kind = "Ok"
    /\ Allocations(last) = 1

\* the transient path of C9 is reached: two allocations
C9_TransientReached ==
    /\ Consecutive
    /\ ~SameDims
    /\ InBounds(last)
    /\ prev.error = ""
    /\ Allocations(last) = 2

\* C10: every call that returns Ok returns exactly width*height*4 bytes.
C10_BufferLength ==
    (Returned /\ last.result.kind = "Ok")
        => Len(last.result.data) = ByteLen(last)

\* a frame was read back through a padded row pitch, and the buffer is
\* larger than one pixel
C10_Witness ==
    /\ Returned
    /\ InBounds(last)
    /\ last.result.kind = "Ok"
    /\ Acquired(last, "Frame")
    /\ Has(last, "Map:Ok")
    /\ ByteLen(last) > 4
    /\ Len(last.result.data) = ByteLen(last)
    /\ last.result.data # zeroed(last.width, last.height)

\* the no-new-frame path of C10 is reached
C10_ZeroPathReached ==
    /\ Returned
    /\ InBounds(last)
    /\ Acquired(last, "NoResource")
    /\ last.result = Ok(zeroed(last.width, last.height))

\* the offsets from pData the mapped surface of the call spans, and those of
\* them that are stride padding
SourceOffsets(c) == 0..(as_usize(c.height) * c.row_pitch - 1)

Padding(c) == { off \in SourceOffsets(c) : off % c.row_pitch >= as_usize(c.width) * 4 }

\* C11: when the staging buffer was mapped with row pitch >= width*4, the
\* returned buffer has out[y*width*4 + i] = src[y*pitch + i] for every row
\* y < height and every i < width*4 (rows top to bottom), and no byte of the
\* stride padding (source offset y*pitch + i with i >= width*4) is in it.
C11_StrideNormalized ==
    (Returned /\ Has(last, "Map:Ok") /\ last.result.kind = "Ok")
        => /\ last.row_pitch >= as_usize(last.width) * 4
           /\ \A y \in 0..(as_usize(last.height) - 1) :
              \A i \in 0..(as_usize(last.width) * 4 - 1) :
                last.result.data[y * as_usize(last.width) * 4 + i + 1]
                    = MappedByte(y * last.row_pitch + i)
           /\ \A off \in Padding(last) :
              \A k \in DOMAIN last.result.data :
                last.result.data[k] # MappedByte(off)

\* two rows or more were read through a padded pitch
C11_Witness ==
    /\ Returned
    /\ Has(last, "Map:Ok")
    /\ last.result.kind = "Ok"
    /\ as_usize(last.height) >= 2
    /\ last.row_pitch > as_usize(last.width) * 4
    /\ Padding(last) # {}
    /\ last.result.data[as_usize(last.width) * 4 + 1] = MappedByte(last.row_pitch)

\* the GPU work the bounds check stands before
GuardedOps == CreateOps \cup AcquireOps \cup { "CopySubresourceRegion" }

\* C12: for every 32-bit left, top, width, height, a call whose rectangle
\* lies outside the output (left+width > output_width or
\* top+height > output_height as mathematical sums, sums above 2^32-1
\* included) returns ValidationError and reaches no staging-buffer
\* allocation, no frame acquisition and no GPU region copy.
\* The code compares the 32-bit sums: with left = 2^32-1 and width = 1 the
\* release build wraps to 0, passes the check and copies from a box whose
\* right edge is 0; the debug build panics.  This statement is violated.
C12_OverflowRejected ==
    (Returned /\ ~InBounds(last))
        => /\ last.result.kind = "Err"
           /\ last.result.error = "ValidationError"
           /\ Count(last, GuardedOps) = 0

\* the wrapped rectangle reaches the GPU region copy
C12_WrappedBoxCopied ==
    /\ Returned
    /\ ~InBounds(last)
    /\ Has(last, "CopySubresourceRegion")
    /\ u32_gt(last.src_box.left, last.src_box.right)

Present(h) == h # None

\* C13: in every state between operations the duplication handle is present
\* exactly when the device, the context and the output handle are all
\* present; the four handles are all present or all absent.
C13_DuplicationIffInitialized ==
    /\ Present(duplication)
         <=> (Present(d3d_device) /\ Present(d3d_context) /\ Present(dxgi_output5))
    /\ { Present(duplication), Present(d3d_device),
         Present(d3d_context), Present(dxgi_output5) } \in { { TRUE }, { FALSE } }

\* a failed reinitialization took an initialized session down as a whole
C13_Witness ==
    /\ Returned
    /\ TransientAcquire(last)
    /\ ~ReinitSucceeded(last)
    /\ Present(last.pre.duplication) /\ Present(last.pre.d3d_device)
    /\ ~Present(duplication) /\ ~Present(d3d_device)
    /\ ~Present(d3d_context) /\ ~Present(dxgi_output5)

\* a lazy initialization brought an uninitialized session up as a whole
C13_InitializedReached ==
    /\ Returned
    /\ ~Present(last.pre.duplication)
    /\ Present(duplication) /\ Present(d3d_device)
    /\ Present(d3d_context) /\ Present(dxgi_output5)

\* the call ended in a failed initialize_duplication
InitFailed(c) == c.result.kind = "Err" /\ c.result.error \in InitErrors

\* C14: an initialization that fails (at device creation, output
\* enumeration or duplication start) leaves output_width, output_height and
\* chosen_format as they were before the call, and these fields change only
\* in a call whose initialization succeeded and installed the handles.
\* The code assigns output_width and output_height before it tries to start
\* the duplication, so a failure at that step leaves the new extent with no
\* session: this statement is violated.
C14_AtomicReplacement ==
    Returned
        => /\ InitFailed(last)
                => /\ output_width = last.pre.output_width
                   /\ output_height = last.pre.output_height
                   /\ chosen_format = last.pre.chosen_format
           /\ (\/ output_width # last.pre.output_width
               \/ output_height # last.pre.output_height
               \/ chosen_format # last.pre.chosen_format)
                => /\ Has(last, "initialize_duplication")
                   /\ Count(last, DuplicationStarted) >= 1
                   /\ Present(duplication)

\* the failure at the duplication start is reached on a session that was
\* initialized, and the output extent has changed
C14_ExtentChanged ==
    /\ Returned
    /\ last.result = Err("DuplicationError")
    /\ Present(last.pre.duplication)
    /\ ~Present(duplication)
    /\ output_width # last.pre.output_width

Released(s) ==
    /\ Uninitialized(s)
    /\ s.roi_cached_width = U32(0)
    /\ s.roi_cached_height = U32(0)

\* C15: release_resources leaves device, context, output, duplication and
\* staging buffer absent and the cached dimensions (0, 0); applied a second
\* time, or to an engine that is already uninitialized, it changes nothing.
\* Drop and the start of every initialization run it.
C15_TeardownIdempotent ==
    /\ Released(release_resources(Self))
    /\ release_resources(release_resources(Self)) = release_resources(Self)
    /\ Uninitialized(Self) => release_resources(Self) = Self
    /\ phase = "dropped"
         => /\ last.ops = << "release_resources" >>
            /\ last.result.kind = "Ok"
            /\ Self = release_resources(last.pre)
            /\ Released(Self)
    /\ \A i \in DOMAIN last.ops :
         last.ops[i] = "initialize_duplication"
            => (i < Len(last.ops) /\ last.ops[i + 1] = "release_resources")

\* an engine with a session and a staging buffer was dropped
C15_Witness ==
    /\ phase = "dropped"
    /\ Present(last.pre.duplication)
    /\ last.pre.roi_texture # NoTexture
    /\ last.pre.roi_cached_width # U32(0)
    /\ Released(Self)
    /\ release_resources(Self) = Self

\* an engine that was already uninitialized was dropped
C15_UninitializedDropped ==
    /\ phase = "dropped"
    /\ Uninitialized(last.pre)
    /\ Self = last.pre

DuplicationCalls == { DuplicateOutput1(f, ok) : f \in Formats, ok \in BOOLEAN }

\* ops[i] starts the duplication with the k-th candidate right after the
\* k-1 candidates before it were refused in order, and no candidate is
\* tried after it
FirstAccepted(c, i, k) ==
    /\ i > k
    /\ c.ops[i - k] = "EnumOutputs:Ok"
    /\ \A j \in 1..(k - 1) :
         c.ops[i - k + j] = DuplicateOutput1(supported_formats[j], FALSE)
    /\ i < Len(c.ops) => c.ops[i + 1] \notin DuplicationCalls

\* the index of the last started duplication of the call
LastStarted(c) ==
    CHOOSE i \in DOMAIN c.ops :
        /\ c.ops[i] \in DuplicationStarted
        /\ \A j \in DOMAIN c.ops : c.ops[j] \in DuplicationStarted => j <= i

AllRefused ==
    [ k \in DOMAIN supported_formats |-> DuplicateOutput1(supported_formats[k], FALSE) ]

\* C16: initialize_duplication tries the candidates in the order 8-bit BGRA,
\* 8-bit RGBA, 16-bit float RGBA; the format of a successful initialization
\* is the first one the output accepts and nothing is tried after it; when
\* the output accepts none the initialization fails with DuplicationError
\* and no handle is installed.
C16_FormatNegotiation ==
    (phase \in { "returned", "failed" })
        => /\ \A i \in DOMAIN last.ops :
                last.ops[i] \in DuplicationStarted
                    => \E k \in DOMAIN supported_formats :
                         /\ last.ops[i] = DuplicateOutput1(supported_formats[k], TRUE)
                         /\ FirstAccepted(last, i, k)
           /\ Count(last, DuplicationStarted) >= 1
                => \/ last.ops[LastStarted(last)]
                        = DuplicateOutput1(chosen_format, TRUE)
                   \/ InitFailed(last)
           /\ \A i \in DOMAIN last.ops :
                last.ops[i] = AllRefused[Len(supported_formats)]
                    => /\ i >= Len(supported_formats)
                       /\ SubSeq(last.ops, i - Len(supported_formats) + 1, i) = AllRefused
                       /\ last.result = Err("DuplicationError")
                       /\ Uninitialized(Self)
                       /\ ~Then(last, { last.ops[i] }, DuplicationStarted)

\* the third candidate was taken after the first two were refused
C16_Witness ==
    /\ Returned
    /\ Has(last, DuplicateOutput1(supported_formats[1], FALSE))
    /\ Has(last, DuplicateOutput1(supported_formats[2], FALSE))
    /\ Has(last, DuplicateOutput1(supported_formats[3], TRUE))
    /\ chosen_format = supported_formats[3]
    /\ last.pre.chosen_format # supported_formats[3]
    /\ Present(duplication)

\* no candidate was accepted
C16_NoneAccepted ==
    /\ Returned
    /\ SubSeq(last.ops, Len(last.ops) - 2, Len(last.ops)) = AllRefused
    /\ last.result = Err("DuplicationError")
    /\ Uninitialized(Self)

MapOps == { "Map:Ok", "Map:Err" }

\* the API calls that take the staging texture
StagingUses == { "CopySubresourceRegion" } \cup MapOps

\* the engine as it was at the acquisition of the call (and through its
\* readback, which assigns no field)
AtAcquire(c) == c.pre_acq[1]

\* C17: every initialize_duplication, successful or not, leaves no staging
\* texture and cached dimensions (0, 0), so the ensure_roi_texture after it
\* allocates; every staging texture has the format of the current session,
\* and every GPU copy and every Map of a call that initialized comes after
\* a CreateTexture2D made after that initialization.  initialize_duplication
\* is applied to the engine of every state in which it can be called (the
\* idle states: a call starts from one).
C17_StagingNeverSurvivesReinit ==
    /\ phase = "idle"
         => \A e \in InitEnvs :
              LET r == initialize_duplication(Self, e) IN
                /\ r.s.roi_texture = NoTexture
                /\ r.s.roi_cached_width = U32(0)
                /\ r.s.roi_cached_height = U32(0)
                /\ r.res.kind = "Ok"
                     => \A width \in Widths, height \in Heights :
                            ensure_roi_texture(r.s, width, height, TRUE).ops
                                = << "CreateTexture2D:Ok" >>
    /\ roi_texture # NoTexture
         => /\ roi_texture[1].Format = chosen_format
            /\ Present(duplication)
    /\ Returned
         => /\ \A i \in DOMAIN last.ops :
                 last.ops[i] = "initialize_duplication"
                    => \A j \in (i + 1)..Len(last.ops) :
                         last.ops[j] \in StagingUses
                            => \E k \in (i + 1)..(j - 1) :
                                 last.ops[k] = "CreateTexture2D:Ok"
            /\ Count(last, StagingUses) > 0
                 => /\ AtAcquire(last).roi_texture # NoTexture
                    /\ AtAcquire(last).roi_texture[1].Format
                          = AtAcquire(last).chosen_format
            /\ InitFailed(last)
                 => /\ roi_texture = NoTexture
                    /\ roi_cached_width = U32(0)
                    /\ roi_cached_height = U32(0)
    /\ (Consecutive /\ prev.error \in InitErrors /\ Count(last, AcquireOps) > 0)
         => Then(last, { "initialize_duplication" }, CreateOps)

\* a recovery replaced a staging texture by one of another format
C17_Witness ==
    /\ Returned
    /\ last.pre.roi_texture # NoTexture
    /\ ReinitSucceeded(last)
    /\ roi_texture # NoTexture
    /\ roi_texture[1].Format # last.pre.roi_texture[1].Format
    /\ roi_texture[1].Format = chosen_format

\* a lazy initialization was followed by an allocation and a GPU copy
C17_CopyAfterInitReached ==
    /\ Consecutive
    /\ prev.error \in InitErrors
    /\ Then(last, { "initialize_duplication" }, { "CreateTexture2D:Ok" })
    /\ Then(last, { "CreateTexture2D:Ok" }, { "CopySubresourceRegion" })
    /\ Has(last, "Map:Ok")

\* the steps of a call that reads a frame back, in order
FramePath ==
    << AcquireOp("Frame"), "cast:Ok", "CopySubresourceRegion", "ReleaseFrame",
       "Map:Ok", "copy_rows", "Unmap" >>

\* every op of X comes before every op of Y
Before(c, X, Y) ==
    \A i \in DOMAIN c.ops :
        c.ops[i] \in Y => \A j \in i..Len(c.ops) : c.ops[j] \notin X

\* the ops of the call from its AcquireNextFrame on
FromAcquire(c) ==
    LET i == CHOOSE k \in DOMAIN c.ops : c.ops[k] \in AcquireOps
    IN SubSeq(c.ops, i, Len(c.ops))

IsPrefix(p, q) == Len(p) <= Len(q) /\ SubSeq(q, 1, Len(p)) = p

\* C18: in a call that acquires a frame the steps are, in this order,
\* AcquireNextFrame, CopySubresourceRegion, ReleaseFrame, Map, the row copy,
\* Unmap, return; the frame is released before the staging texture is
\* mapped, and a successful Map is followed by exactly one Unmap, the last
\* step of the call.
C18_StepOrder ==
    (Returned /\ Acquired(last, "Frame"))
        => /\ Before(last, { AcquireOp("Frame") }, { "CopySubresourceRegion" })
           /\ Before(last, { "CopySubresourceRegion" }, { "ReleaseFrame" })
           /\ Before(last, { "ReleaseFrame" }, MapOps)
           /\ Before(last, MapOps, { "copy_rows" })
           /\ Before(last, { "copy_rows" }, { "Unmap" })
           /\ Has(last, "cast:Ok")
                => /\ IsPrefix(SubSeq(FramePath, 1, 4), FromAcquire(last))
                   /\ Count(last, MapOps) = 1
           /\ Count(last, { "Unmap" }) = Count(last, { "Map:Ok" })
           /\ Has(last, "Map:Ok")
                => /\ FromAcquire(last) = FramePath
                   /\ last.ops[Len(last.ops)] = "Unmap"
           /\ last.result.kind = "Ok" <=> FromAcquire(last) = FramePath

\* a call that initialized, allocated and read a frame back
C18_Witness ==
    /\ Returned
    /\ Acquired(last, "Frame")
    /\ last.result.kind = "Ok"
    /\ FromAcquire(last) = FramePath
    /\ Len(last.ops) > Len(FramePath)

SameTexture(tex, width, height) ==
    tex # NoTexture /\ tex[1].Width = width /\ tex[1].Height = height

\* C19: a staging texture that is present has the cached (width, height) it
\* was created with; ensure_roi_texture(width, height) changes nothing
\* exactly when a texture is present and the cached dimensions are
\* (width, height), and otherwise drops the texture and creates one of
\* (width, height); a failed creation leaves no texture; at every
\* CopySubresourceRegion the texture is present with the requested
\* (width, height).
C19_CacheCoherence ==
    /\ roi_texture # NoTexture
         => SameTexture(roi_texture, roi_cached_width, roi_cached_height)
    /\ (phase = "idle" /\ Present(d3d_device))
         => \A width \in Widths, height \in Heights, create_ok \in BOOLEAN :
              LET t == ensure_roi_texture(Self, width, height, create_ok)
                  reuse == /\ roi_texture # NoTexture
                           /\ roi_cached_width = width
                           /\ roi_cached_height = height
              IN /\ (t.ops = << >> /\ t.s = Self /\ t.res.kind = "Ok") <=> reuse
                 /\ ~reuse => Len(t.ops) = 1 /\ t.ops[1] \in CreateOps
                 /\ (~reuse /\ ~create_ok)
                      => /\ t.res = Err("AllocationError")
                         /\ t.s.roi_texture = NoTexture
                 /\ (~reuse /\ create_ok)
                      => /\ t.res.kind = "Ok"
                         /\ t.s.roi_texture = Texture(width, height, chosen_format)
                         /\ t.s.roi_cached_width = width
                         /\ t.s.roi_cached_height = height
    /\ (Returned /\ Has(last, "CopySubresourceRegion"))
         => SameTexture(AtAcquire(last).roi_texture, last.width, last.height)
    /\ (Returned /\ last.result.error = "AllocationError")
         => roi_texture = NoTexture

\* a texture of other dimensions was replaced and the frame copied into the
\* new one
C19_Witness ==
    /\ Returned
    /\ last.pre.roi_texture # NoTexture
    /\ ~SameTexture(last.pre.roi_texture, last.width, last.height)
    /\ Has(last, "CreateTexture2D:Ok")
    /\ Has(last, "CopySubresourceRegion")
    /\ SameTexture(roi_texture, last.width, last.height)

\* a failed creation dropped the texture the engine had
C19_FailedCreationReached ==
    /\ Returned
    /\ last.pre.roi_texture # NoTexture
    /\ last.result = Err("AllocationError")
    /\ ~Has(last, "initialize_duplication")
    /\ roi_texture = NoTexture
    /\ roi_cached_width = last.pre.roi_cached_width

\* C20: the row copy runs only after Map was called and succeeded in the
\* same call, with the context and the staging texture present; a call that
\* got the frame's texture never skips the guarded CopySubresourceRegion or
\* the guarded Map; a failed Map returns MappingError and no row is copied.
C20_RowCopyOnlyMapped ==
    Returned
        => /\ last.result.kind # "UB"
           /\ Has(last, "copy_rows")
                => /\ Present(AtAcquire(last).d3d_context)
                   /\ AtAcquire(last).roi_texture # NoTexture
                   /\ Then(last, { "Map:Ok" }, { "copy_rows" })
                   /\ Count(last, { "Map:Ok" }) = 1
                   /\ ~Has(last, "Map:Err")
                   /\ last.row_pitch > 0
           /\ Has(last, "cast:Ok")
                => /\ Has(last, "CopySubresourceRegion")
                   /\ Count(last, MapOps) = 1
           /\ Has(last, "Map:Err")
                => /\ last.result = Err("MappingError")
                   /\ ~Has(last, "copy_rows")
                   /\ last.ops[Len(last.ops)] = "Map:Err"

\* the row copy ran over a mapped staging texture
C20_Witness ==
    /\ Returned
    /\ Has(last, "copy_rows")
    /\ Then(last, { "Map:Ok" }, { "copy_rows" })
    /\ Present(AtAcquire(last).d3d_context)
    /\ AtAcquire(last).roi_texture # NoTexture
    /\ last.result.kind = "Ok"

\* a Map failure was returned
C20_MapFailureReached ==
    /\ Returned
    /\ Has(last, "Map:Err")
    /\ last.result = Err("MappingError")
    /\ ~Has(last, "copy_rows")

====
